---- MODULE Spec2Model ----
(***************************************************************************)
(* A model of the reminder plugin's core: the per-user sliding-window rate *)
(* limiter (util.py, UserInfo), the date extraction and formatting         *)
(* functions (util.py, parse_date / format_time), the reminder and         *)
(* subscription tables (migrations.py, upgrade_v1) and the message         *)
(* encryption migration (migrations.py, upgrade_v2).                       *)
(***************************************************************************)
EXTENDS Integers, Sequences, FiniteSets, TLC

VARIABLES
    \* ---- rate limiter (util.py:119-139) ----
    now,          \* datetime.now(pytz.UTC), in minutes
    max_calls,    \* the max_calls argument the bot passes, fixed for a run
    users,        \* user id -> None, or the UserInfo object of that user
    deques,       \* deque object id -> its contents, oldest first
    solo,         \* history: user id -> the window the user's own calls alone produce
    last,         \* history: the last check_rate_limit call and what it returned
    \* ---- date extraction and formatting (util.py:162-260) ----
    clock,        \* datetime.now(tz=pytz.UTC): [sec, usec]
    user_info,    \* the caller's UserInfo: [timezone]
    shown,        \* the last format_time call: the instant, the text, the clock
    outcome,      \* the last parse_date call: its input and what it returned or raised
    \* ---- reminder and subscription tables (migrations.py:26-52) ----
    reminder,         \* table reminder: the event_ids of its rows
    reminder_target,  \* table reminder_target: rows [event_id, user_id]
    pending,          \* client -> the subscription it is about to insert, or NoRow
    statement,        \* history: the last statement executed and how it ended
    \* ---- message encryption migration (migrations.py:63-73) ----
    reminder_message,  \* event_id -> the message column of that reminder row
    original,     \* history: event_id -> the message column before any upgrade
    upgrade       \* the run of upgrade_v2: position, fetched rows, counters

rateVars == <<now, max_calls, users, deques, solo, last>>
parseVars == <<clock, user_info, shown, outcome>>
storeVars == <<reminder, reminder_target, pending, statement>>
upgradeVars == <<reminder_message, original, upgrade>>
vars == <<rateVars, parseVars, storeVars, upgradeVars>>

None == "None"

----------------------------------------------------------------------------
(* Rate limiter                                                            *)

Users == {"A", "B"}

\* Default arguments of check_rate_limit.
DefaultMaxCalls == 5
time_window == 60

\* The clock stops advancing here.
MaxClock == 91

\* Clock advances between calls: less than a window, exactly a window, and
\* one minute more than a window.
Steps == {time_window \div 2, time_window, time_window + 1}

\* The one deque() object evaluated in the class body, and the deque a caller
\* passes explicitly for user u.
SharedDeque == "class_default"
OwnDeque(u) == u
DequeIds == {SharedDeque} \cup {OwnDeque(u) : u \in Users}

\* No UserInfo object yet (created lazily on the first interaction).
NoUser == [last_reminders |-> None, explicit |-> FALSE]

\* UserInfo(locale, timezone[, last_reminders]): attrs stores the default
\* VALUE of the field, so every object built without last_reminders refers to
\* the same deque object.
UserInfo(u, explicit) ==
    [last_reminders |-> IF explicit THEN OwnDeque(u) ELSE SharedDeque,
     explicit |-> explicit]

\* The while loop of check_rate_limit: pop from the left while the oldest
\* timestamp plus the window is strictly before now.
RECURSIVE EvictInclusive(_, _, _)
EvictInclusive(q, t, tw) ==
    IF Len(q) > 0 /\ Head(q) + tw <= t THEN EvictInclusive(Tail(q), t, tw) ELSE q
RECURSIVE Evict(_, _, _)
Evict(q, t, tw) ==
    IF Len(q) > 0 /\ Head(q) + tw < t THEN Evict(Tail(q), t, tw) ELSE q

\* The append of check_rate_limit: only below the cap.
RecordAtCap(q, t, mc) == IF Len(q) <= mc THEN Append(q, t) ELSE q
Record(q, t, mc) == IF Len(q) < mc THEN Append(q, t) ELSE q

\* check_rate_limit on a deque holding q, at time t: the deque afterwards and
\* the value returned.
check_rate_limit(q, t, mc, tw) ==
    LET q2 == Record(Evict(q, t, tw), t, mc)
    IN  [last_reminders |-> q2, ret |-> Len(q2)]

NoCall == [user |-> None, pre |-> <<>>, post |-> <<>>, at |-> 0, ret |-> 0,
           recorded |-> FALSE, soloRet |-> 0]

RateInit ==
    /\ now = 0
    /\ max_calls \in 0..DefaultMaxCalls
    /\ users = [u \in Users |-> NoUser]
    /\ deques = [d \in DequeIds |-> <<>>]
    /\ solo = [u \in Users |-> <<>>]
    /\ last = NoCall

\* The first interaction of user u in this process run creates its UserInfo.
CreateUser(u, explicit) ==
    /\ users[u] = NoUser
    /\ users' = [users EXCEPT ![u] = UserInfo(u, explicit)]
    /\ UNCHANGED <<now, max_calls, deques, solo, last>>
    /\ UNCHANGED <<parseVars, storeVars, upgradeVars>>

\* Time passes.
Tick(d) ==
    /\ now + d <= MaxClock
    /\ now' = now + d
    /\ UNCHANGED <<max_calls, users, deques, solo, last>>
    /\ UNCHANGED <<parseVars, storeVars, upgradeVars>>

\* users[u].check_rate_limit(max_calls, time_window)
CheckRateLimit(u) ==
    /\ users[u] # NoUser
    /\ LET d == users[u].last_reminders
           r == check_rate_limit(deques[d], now, max_calls, time_window)
           s == check_rate_limit(solo[u], now, max_calls, time_window)
       IN  /\ deques' = [deques EXCEPT ![d] = r.last_reminders]
           /\ solo' = [solo EXCEPT ![u] = s.last_reminders]
           /\ last' = [user |-> u, pre |-> deques[d], post |-> r.last_reminders,
                       at |-> now, ret |-> r.ret,
                       recorded |-> Len(r.last_reminders) > Len(Evict(deques[d], now, time_window)),
                       soloRet |-> s.ret]
    /\ UNCHANGED <<now, max_calls, users>>
    /\ UNCHANGED <<parseVars, storeVars, upgradeVars>>

RateNext ==
    \/ \E u \in Users, e \in BOOLEAN : CreateUser(u, e)
    \/ \E d \in Steps : Tick(d)
    \/ \E u \in Users : CheckRateLimit(u)

----------------------------------------------------------------------------
(* Text, dates and the dateparser library                                  *)
(*                                                                         *)
(* A text is the sequence of its whitespace-delimited tokens (the matches  *)
(* of \S+); str[:i.end()] is the subsequence of the first i tokens.  A     *)
(* datetime is [sec, usec]: whole seconds since the epoch, UTC, and the    *)
(* sub-second part.                                                        *)

\* Sub-second clock values per second are 0..MaxUsec.
MaxUsec == 1

Tok(k, n, u) == [k |-> k, n |-> n, u |-> u]
In == Tok("in", 0, "")
And == Tok("and", 0, "")
Ago == Tok("ago", 0, "")
NowWord == Tok("now", 0, "")
On == Tok("on", 0, "")
W == Tok("w", 0, "")                          \* a bare "w"
Num(n) == Tok("num", n, "")                   \* "8"
Unit(u, plural) == Tok("unit", IF plural THEN 1 ELSE 0, u)   \* "hour", "hours"
NumUnit(n, u) == Tok("numunit", n, u)         \* "4d", "2wk"
NumW(n) == Tok("numw", n, "")                 \* "3w"
Word(n) == Tok("word", n, "")                 \* a word that is no part of a date
ClockTime(m) == Tok("time", m, "")            \* "%-I:%M%P": minute of the day
Zone(tz) == Tok("tz", 0, tz)                  \* "%Z"
Weekday(n) == Tok("weekday", n, "")           \* "%A,"
Month(n) == Tok("month", n, "")               \* "%B"
DayOfMonth(n) == Tok("dom", n, "")            \* "%-d"
Year(n) == Tok("year", n, "")                 \* "%Y"

UnitSecs(u) ==
    CASE u = "second" -> 1
      [] u = "minute" -> 60
      [] u = "hour" -> 3600
      [] u = "day" -> 86400
      [] u = "week" -> 604800
UnitNames == {"second", "minute", "hour", "day", "week"}

\* Timezones a user can set, with their offsets from UTC in seconds.
Timezones == {"UTC", "MST"}
UtcOffset(tz) == IF tz = "MST" THEN -25200 ELSE 0

NoDate == [sec |-> -1, usec |-> -1]
Before(a, b) == a.sec < b.sec \/ (a.sec = b.sec /\ a.usec < b.usec)
\* datetime.replace(microsecond=0)
ReplaceMicrosecond0(d) == [d EXCEPT !.usec = 0]

\* The proleptic Gregorian calendar of datetime: day number since the epoch
\* to (year, month, day) and back.
CivilFromDays(z0) ==
    LET z == z0 + 719468
        era == z \div 146097
        doe == z - era * 146097
        yoe == (doe - doe \div 1460 + doe \div 36524 - doe \div 146096) \div 365
        doy == doe - (365 * yoe + yoe \div 4 - yoe \div 100)
        mp == (5 * doy + 2) \div 153
        d == doy - (153 * mp + 2) \div 5 + 1
        m == IF mp < 10 THEN mp + 3 ELSE mp - 9
    IN  [y |-> yoe + era * 400 + (IF m <= 2 THEN 1 ELSE 0), m |-> m, d |-> d]
DaysFromCivil(y0, m, d) ==
    LET y == IF m <= 2 THEN y0 - 1 ELSE y0
        era == y \div 400
        yoe == y - era * 400
        doy == (153 * (IF m > 2 THEN m - 3 ELSE m + 9) + 2) \div 5 + d - 1
        doe == yoe * 365 + yoe \div 4 - yoe \div 100 + doy
    IN  era * 146097 + doe - 719468

\* dateparser's relative ("freshness") dates: groups of a number and a unit,
\* skip words dropped, a later group of the same unit replacing an earlier
\* one.  kw maps each unit to its count, -1 when absent.
NoUnits == [u \in UnitNames |-> -1]
RECURSIVE RelGroups(_, _, _)
RelGroups(toks, i, kw) ==
    IF i > Len(toks) THEN kw
    ELSE IF toks[i].k = "and" THEN RelGroups(toks, i + 1, kw)
    ELSE IF toks[i].k = "numunit"
         THEN RelGroups(toks, i + 1, [kw EXCEPT ![toks[i].u] = toks[i].n])
    ELSE IF toks[i].k = "num" /\ i < Len(toks) /\ toks[i + 1].k = "unit"
         THEN RelGroups(toks, i + 2, [kw EXCEPT ![toks[i + 1].u] = toks[i].n])
    ELSE NoUnits
RECURSIVE SumUnits(_, _)
SumUnits(kw, us) ==
    IF us = {} THEN 0
    ELSE LET u == CHOOSE x \in us : TRUE
         IN  (IF kw[u] > 0 THEN kw[u] * UnitSecs(u) ELSE 0) + SumUnits(kw, us \ {u})

\* "in ..." and, with PREFER_DATES_FROM = future, a bare duration are added to
\* now; "... ago" is subtracted.
RelativeDate(toks, c) ==
    LET future == Len(toks) > 0 /\ toks[1].k = "in"
        past == Len(toks) > 0 /\ toks[Len(toks)].k = "ago"
        body == SubSeq(toks, IF future THEN 2 ELSE 1,
                             IF past THEN Len(toks) - 1 ELSE Len(toks))
        kw == RelGroups(body, 1, NoUnits)
        delta == SumUnits(kw, UnitNames)
    IN  IF kw = NoUnits THEN NoDate
        ELSE IF future \/ ~past THEN [c EXCEPT !.sec = c.sec + delta]
        ELSE [c EXCEPT !.sec = c.sec - delta]

\* An absolute date as format_time writes it: time, zone, "on", weekday,
\* month, day, year.  The zone named in the text gives the offset.
IsAbsolute(toks) ==
    /\ Len(toks) = 7
    /\ <<toks[1].k, toks[2].k, toks[3].k, toks[4].k, toks[5].k, toks[6].k, toks[7].k>>
         = <<"time", "tz", "on", "weekday", "month", "dom", "year">>
AbsoluteDate(toks) ==
    [sec |-> DaysFromCivil(toks[7].n, toks[5].n, toks[6].n) * 86400
               + toks[1].n * 60 - UtcOffset(toks[2].u),
     usec |-> 0]

\* dateparser.parse(text, locales=[locale], settings=settings), reading the
\* clock as c: the date, or NoDate (Python's None) when the whole text is not
\* a date expression.
DateParse(toks, c) ==
    IF toks = <<NowWord>> THEN c
    ELSE IF IsAbsolute(toks) THEN AbsoluteDate(toks)
    ELSE RelativeDate(toks, c)

\* search_dates(text, languages, settings): the first date expression found
\* inside the text, as [date_str, date], or NoMatch when there is none.
NoMatch == [date_str |-> <<>>, date |-> NoDate]
RECURSIVE LongestFrom(_, _, _, _)
LongestFrom(toks, i, j, c) ==
    IF j < i THEN NoMatch
    ELSE IF DateParse(SubSeq(toks, i, j), c) # NoDate
         THEN [date_str |-> SubSeq(toks, i, j), date |-> DateParse(SubSeq(toks, i, j), c)]
    ELSE LongestFrom(toks, i, j - 1, c)
RECURSIVE SearchFrom(_, _, _)
SearchFrom(toks, i, c) ==
    IF i > Len(toks) THEN NoMatch
    ELSE IF LongestFrom(toks, i, Len(toks), c) # NoMatch
         THEN LongestFrom(toks, i, Len(toks), c)
    ELSE SearchFrom(toks, i + 1, c)
search_dates(toks, c) == SearchFrom(toks, 1, c)

----------------------------------------------------------------------------
(* format_time and parse_date                                              *)

\* pluralize(val, unit)
pluralize(val, unit) == <<Num(val), Unit(unit, val # 1)>>

\* " and ".join(parts)
RECURSIVE JoinAnd(_)
JoinAnd(parts) ==
    IF Len(parts) = 0 THEN <<>>
    ELSE IF Len(parts) = 1 THEN parts[1]
    ELSE parts[1] \o <<And>> \o JoinAnd(Tail(parts))

\* How many of the parts of a duration format_time prints.
SignificantParts == 2

\* time.astimezone(tz).strftime("%-I:%M%P %Z on %A, %B %-d %Y")
strftime(t, tz) ==
    LET local == t + UtcOffset(tz)
        days == local \div 86400
        civil == CivilFromDays(days)
    IN  <<ClockTime((local % 86400) \div 60), Zone(tz), On,
          Weekday((days + 4) % 7), Month(civil.m), DayOfMonth(civil.d), Year(civil.y)>>

\* The relative branch of format_time: the parts of the duration, the first
\* ones joined, "in" before or "ago" after.
RelativeTextNoSeconds(t, nowsec) ==
    LET delta == IF t >= nowsec THEN t - nowsec ELSE nowsec - t
        days == delta \div 86400
        rest == delta % 86400
        hours == rest \div 3600
        minutes == (rest % 3600) \div 60
        seconds == rest % 60
        parts == (IF days > 0 THEN <<pluralize(days, "day")>> ELSE <<>>)
                 \o (IF hours > 0 THEN <<pluralize(hours, "hour")>> ELSE <<>>)
                 \o (IF minutes > 0 THEN <<pluralize(minutes, "minute")>> ELSE <<>>)
        text == JoinAnd(SubSeq(parts, 1, IF Len(parts) < SignificantParts
                                          THEN Len(parts) ELSE SignificantParts))
    IN  IF t > nowsec THEN <<In>> \o text ELSE text \o <<Ago>>
RelativeText(t, nowsec) ==
    LET delta == IF t >= nowsec THEN t - nowsec ELSE nowsec - t
        days == delta \div 86400
        rest == delta % 86400
        hours == rest \div 3600
        minutes == (rest % 3600) \div 60
        seconds == rest % 60
        parts == (IF days > 0 THEN <<pluralize(days, "day")>> ELSE <<>>)
                 \o (IF hours > 0 THEN <<pluralize(hours, "hour")>> ELSE <<>>)
                 \o (IF minutes > 0 THEN <<pluralize(minutes, "minute")>> ELSE <<>>)
                 \o (IF seconds > 0 THEN <<pluralize(seconds, "second")>> ELSE <<>>)
        text == JoinAnd(SubSeq(parts, 1, IF Len(parts) < SignificantParts
                                          THEN Len(parts) ELSE SignificantParts))
    IN  IF t > nowsec THEN <<In>> \o text ELSE text \o <<Ago>>

\* format_time(time, user_info) for a whole-second time t, the clock reading
\* c: now is the clock without its microseconds.
format_time(t, tz, c) ==
    LET nowsec == c.sec
        delta == IF t >= nowsec THEN t - nowsec ELSE nowsec - t
    IN  IF delta <= 7 * 86400 THEN RelativeText(t, nowsec) ELSE strftime(t, tz)

\* re.sub(r"(\b\d+)\s?w\b", r"\1wk", str_with_time, count=1): the first "3w"
\* or "3 w" becomes the single token "3wk".
RECURSIVE NormalizeWeek(_)
NormalizeWeek(toks) ==
    IF Len(toks) = 0 THEN toks
    ELSE IF toks[1].k = "numw"
         THEN <<NumUnit(toks[1].n, "week")>> \o Tail(toks)
    ELSE IF Len(toks) > 1 /\ toks[1].k = "num" /\ toks[2].k = "w"
         THEN <<NumUnit(toks[1].n, "week")>> \o Tail(Tail(toks))
    ELSE <<toks[1]>> \o NormalizeWeek(Tail(toks))

\* islice(re.finditer(r"\S+", str_with_time), 8)
PrefixTokens == 8

\* The for loop of parse_date from candidate i down: the longest prefix of at
\* most i tokens that dateparser.parse accepts, or NoMatch.
RECURSIVE PrefixLoopShortest(_, _, _)
PrefixLoopShortest(toks, i, c) ==
    IF i = 0 THEN NoMatch
    ELSE IF PrefixLoopShortest(toks, i - 1, c) # NoMatch
         THEN PrefixLoopShortest(toks, i - 1, c)
    ELSE IF DateParse(SubSeq(toks, 1, i), c) # NoDate
         THEN [date_str |-> SubSeq(toks, 1, i), date |-> DateParse(SubSeq(toks, 1, i), c)]
    ELSE NoMatch
RECURSIVE PrefixLoop(_, _, _)
PrefixLoop(toks, i, c) ==
    IF i = 0 THEN NoMatch
    ELSE IF DateParse(SubSeq(toks, 1, i), c) # NoDate
         THEN [date_str |-> SubSeq(toks, 1, i), date |-> DateParse(SubSeq(toks, 1, i), c)]
    ELSE PrefixLoop(toks, i - 1, c)

\* The candidates of the loop: the first PrefixTokens tokens, or all of them.
FirstTokens(toks) == IF Len(toks) < PrefixTokens THEN Len(toks) ELSE PrefixTokens

\* CommandSyntax.PARSE_DATE_EXAMPLES.value
PARSE_DATE_EXAMPLES ==
    <<"Examples: Tuesday at noon, 2023-11-30 10:15 pm, July 2, 6 hours, 8pm, 4d, 2wk">>

\* CommandSyntaxError(message, command): the exception's args hold the bare
\* message, its message attribute the message followed by the command's text.
NoError == [args |-> <<>>, message |-> <<>>, cited |-> <<>>]
CommandSyntaxError(message, command, cited) ==
    [args |-> message,
     message |-> IF command # <<>> THEN message \o <<"\n\n">> \o command ELSE message,
     cited |-> cited]

\* The past-date test of parse_date.
InThePast(date, c) == Before(date, c)

\* The fallback of parse_date: search_dates, run when the loop found nothing.
FallbackNever(found, toks, c) == found
Fallback(found, toks, c) ==
    IF found = NoMatch THEN search_dates(toks, c) ELSE found

\* parse_date(str_with_time, user_info): dateparser reads the clock as c1, the
\* past-date test reads it as c2.  What it returns or raises.
parse_date(str_with_time, tz, c1, c2) ==
    LET toks == NormalizeWeek(str_with_time)
        looped == PrefixLoop(toks, FirstTokens(toks), c1)
        found == Fallback(looped, toks, c1)
        date == ReplaceMicrosecond0(found.date)
    IN  IF found = NoMatch
        THEN [status |-> "syntax_error", date |-> NoDate, date_str |-> <<>>,
              via |-> "none",
              error |-> CommandSyntaxError(<<"Unable to extract date from string">>,
                                           PARSE_DATE_EXAMPLES, <<>>)]
        ELSE IF InThePast(date, c2)
        THEN [status |-> "past_error", date |-> date, date_str |-> found.date_str,
              via |-> IF looped # NoMatch THEN "prefix" ELSE "search",
              error |-> CommandSyntaxError(
                          <<"Sorry, ", " is in the past and I don't have a time machine (yet...)">>,
                          <<>>, format_time(date.sec, tz, c2))]
        ELSE [status |-> "ok", date |-> date, date_str |-> found.date_str,
              via |-> IF looped # NoMatch THEN "prefix" ELSE "search",
              error |-> NoError]

----------------------------------------------------------------------------
(* The inputs and the calls                                                *)

\* The clock's first reading, in seconds since the epoch, and how many
\* sub-second steps it runs.
BaseSec == 2160000
MaxTicks == 2

\* Texts of up to MaxLen tokens over a small vocabulary, and longer ones.
MaxLen == 3
Vocab == {In, Ago, NowWord, Num(8), Unit("hour", TRUE), Word(1)}
RECURSIVE SeqsOf(_, _)
SeqsOf(S, n) ==
    IF n = 0 THEN {<<>>}
    ELSE SeqsOf(S, n - 1) \cup {Append(q, x) : q \in SeqsOf(S, n - 1), x \in S}
Filler(n) == [i \in 1..n |-> Word(i)]
DayAndHours == <<In, Num(1), Unit("day", FALSE), And, Num(2), Unit("hour", TRUE)>>
LongTexts ==
    { <<Num(8), Unit("hour", TRUE), Word(1), Word(2), Word(3)>>,
      DayAndHours \o <<And, Num(3), Unit("minute", TRUE)>>,
      DayAndHours \o <<Num(3), Unit("minute", TRUE)>>,
      DayAndHours \o <<Num(3), Unit("minute", TRUE), Word(1)>>,
      DayAndHours \o <<Num(3), Unit("minute", TRUE), Num(4), Unit("second", TRUE)>>,
      Filler(PrefixTokens) \o <<Num(8), Unit("hour", TRUE)>>,
      Filler(PrefixTokens - 1) \o <<Num(8), Unit("hour", TRUE)>>,
      Filler(PrefixTokens - 2) \o <<Num(8), Unit("hour", TRUE)>>,
      <<Word(1), Num(8), Unit("hour", TRUE), Ago>>,
      <<NumW(3)>>, <<Num(8), W>>, <<W>>, <<NumW(3), NumW(3)>>,
      <<Word(1), Num(8), W>>, <<NumW(3), Word(1)>>,
      <<Num(8), W, Word(1), NumW(3)>>,
      <<Word(1), NumW(3), Word(2), NumW(3)>> }
Texts == SeqsOf(Vocab, MaxLen) \cup LongTexts

\* The instants format_time is asked to show: the clock's second plus days,
\* hours, minutes and seconds.
MaxDays == 8
Deltas ==
    { d * 86400 + h * 3600 + m * 60 + s :
        d \in 0..MaxDays, h \in {0, 1, 23}, m \in {0, 2}, s \in {0, 3} }

Advance(c, d) ==
    [sec |-> c.sec + (c.usec + d) \div (MaxUsec + 1),
     usec |-> (c.usec + d) % (MaxUsec + 1)]
Elapsed(c) == (c.sec - BaseSec) * (MaxUsec + 1) + c.usec

NoShown == [time |-> -1, text |-> <<>>, at |-> NoDate]
NoOutcome == [input |-> <<>>, of |-> NoShown, read1 |-> NoDate, read2 |-> NoDate,
              result |-> [status |-> "none", date |-> NoDate, date_str |-> <<>>,
                          via |-> "none", error |-> NoError]]

ParseInit ==
    /\ clock = [sec |-> BaseSec, usec |-> 0]
    /\ user_info \in {[timezone |-> tz] : tz \in Timezones}
    /\ shown = NoShown
    /\ outcome = NoOutcome

\* Time passes between calls.
ClockTick ==
    /\ Elapsed(Advance(clock, 1)) <= MaxTicks
    /\ outcome = NoOutcome
    /\ clock' = Advance(clock, 1)
    /\ UNCHANGED <<user_info, shown, outcome>>
    /\ UNCHANGED <<rateVars, storeVars, upgradeVars>>

\* format_time(time, user_info) for an instant delta seconds from now.
FormatTime(delta, future) ==
    LET t == IF future THEN clock.sec + delta ELSE clock.sec - delta
    IN  /\ shown = NoShown
        /\ outcome = NoOutcome
        /\ shown' = [time |-> t, text |-> format_time(t, user_info.timezone, clock),
                     at |-> clock]
        /\ UNCHANGED <<clock, user_info, outcome>>
        /\ UNCHANGED <<rateVars, storeVars, upgradeVars>>

\* parse_date(text, user_info); the clock may advance by drift between the
\* reading dateparser makes and the reading of the past-date test.
ParseCall(text, of, drift) ==
    /\ outcome = NoOutcome
    /\ Elapsed(Advance(clock, drift)) <= MaxTicks
    /\ clock' = Advance(clock, drift)
    /\ outcome' = [input |-> text, of |-> of, read1 |-> clock, read2 |-> clock',
                   result |-> parse_date(text, user_info.timezone, clock, clock')]
    /\ UNCHANGED <<user_info, shown>>
    /\ UNCHANGED <<rateVars, storeVars, upgradeVars>>
ParseDate(text, drift) ==
    /\ shown = NoShown
    /\ ParseCall(text, NoShown, drift)
\* parse_date applied to the text format_time last produced.
ParseShown(drift) ==
    /\ shown # NoShown
    /\ ParseCall(shown.text, shown, drift)

\* The caller takes the result; the next call starts afresh.
Return ==
    /\ outcome # NoOutcome
    /\ outcome' = NoOutcome
    /\ shown' = NoShown
    /\ UNCHANGED <<clock, user_info>>
    /\ UNCHANGED <<rateVars, storeVars, upgradeVars>>

ParseNext ==
    \/ ClockTick
    \/ Return
    \/ \E delta \in Deltas, future \in BOOLEAN : FormatTime(delta, future)
    \/ \E text \in Texts, drift \in 0..1 : ParseDate(text, drift)
    \/ \E drift \in 0..1 : ParseShown(drift)

----------------------------------------------------------------------------
(* The reminder and reminder_target tables                                 *)

EventIds == {"$e1", "$e2"}
Clients == {"c1", "c2"}

TargetRow(e, u) == [event_id |-> e, user_id |-> u]
NoRow == [event_id |-> None, user_id |-> None]

\* PRIMARY KEY (event_id) of reminder.
ReminderKeyFree(rows, e) == e \notin rows
\* PRIMARY KEY (user_id, event_id) of reminder_target.
TargetKeyFree(targets, row) == row \notin targets
\* FOREIGN KEY (event_id) REFERENCES reminder (event_id): a row may be
\* inserted only when its event_id is one of reminder's.
ForeignKeyHolds(rows, row) == row.event_id \in rows
\* ... ON DELETE CASCADE: deleting reminder e deletes the rows that refer to it.
OnDeleteKeep(targets, e) == targets
OnDeleteCascade(targets, e) == {r \in targets : r.event_id # e}

NoStatement == [op |-> "none", event_id |-> None, user_id |-> None,
                result |-> "none", cascaded |-> 0]

StoreInit ==
    /\ reminder = {}
    /\ reminder_target = {}
    /\ pending = [c \in Clients |-> NoRow]
    /\ statement = NoStatement

\* create(reminder): the row is inserted and its creator subscribed.
CreateReminder(e, creator) ==
    /\ ReminderKeyFree(reminder, e)
    /\ reminder' = reminder \cup {e}
    /\ reminder_target' =
           IF ForeignKeyHolds(reminder', TargetRow(e, creator))
           THEN reminder_target \cup {TargetRow(e, creator)}
           ELSE reminder_target
    /\ statement' = [op |-> "create", event_id |-> e, user_id |-> creator,
                     result |-> "ok", cascaded |-> 0]
    /\ UNCHANGED pending
    /\ UNCHANGED <<rateVars, parseVars, upgradeVars>>

\* A client sees reminder e and sets out to subscribe user u to it.
BeginSubscription(c, e, u) ==
    /\ pending[c] = NoRow
    /\ e \in reminder
    /\ pending' = [pending EXCEPT ![c] = TargetRow(e, u)]
    /\ UNCHANGED <<reminder, reminder_target, statement>>
    /\ UNCHANGED <<rateVars, parseVars, upgradeVars>>

\* add_subscription(reminder_id, user_id, ref): the INSERT, which the table's
\* constraints accept or refuse.
AddSubscription(c) ==
    /\ pending[c] # NoRow
    /\ LET row == pending[c]
           fk == ForeignKeyHolds(reminder, row)
           pk == TargetKeyFree(reminder_target, row)
       IN  /\ reminder_target' = IF fk /\ pk THEN reminder_target \cup {row}
                                 ELSE reminder_target
           /\ statement' = [op |-> "add_subscription", event_id |-> row.event_id,
                            user_id |-> row.user_id,
                            result |-> IF ~fk THEN "foreign_key_violation"
                                       ELSE IF ~pk THEN "unique_violation" ELSE "ok",
                            cascaded |-> 0]
    /\ pending' = [pending EXCEPT ![c] = NoRow]
    /\ UNCHANGED reminder
    /\ UNCHANGED <<rateVars, parseVars, upgradeVars>>

\* remove_subscription(reminder_id, user_id)
RemoveSubscription(e, u) ==
    /\ TargetRow(e, u) \in reminder_target
    /\ reminder_target' = reminder_target \ {TargetRow(e, u)}
    /\ statement' = [op |-> "remove_subscription", event_id |-> e, user_id |-> u,
                     result |-> "ok", cascaded |-> 0]
    /\ UNCHANGED <<reminder, pending>>
    /\ UNCHANGED <<rateVars, parseVars, upgradeVars>>

\* delete(id): DELETE FROM reminder, with the cascade of the foreign key.
DeleteReminder(e) ==
    /\ e \in reminder
    /\ reminder' = reminder \ {e}
    /\ reminder_target' = OnDeleteCascade(reminder_target, e)
    /\ statement' = [op |-> "delete", event_id |-> e, user_id |-> None,
                     result |-> "ok",
                     cascaded |-> Cardinality({r \in reminder_target : r.event_id = e})]
    /\ UNCHANGED pending
    /\ UNCHANGED <<rateVars, parseVars, upgradeVars>>

StoreNext ==
    \/ \E e \in EventIds, u \in Users : CreateReminder(e, u)
    \/ \E c \in Clients, e \in EventIds, u \in Users : BeginSubscription(c, e, u)
    \/ \E c \in Clients : AddSubscription(c)
    \/ \E e \in EventIds, u \in Users : RemoveSubscription(e, u)
    \/ \E e \in EventIds : DeleteReminder(e)

----------------------------------------------------------------------------
(* upgrade_v2: encrypting the stored messages                              *)
(*                                                                         *)
(* A stored string is [null, text, layers]: SQL NULL, or the text with the *)
(* Fernet tokens wrapped around it, innermost first, each named by the     *)
(* random IV it was made with.  No layer: the text itself.                 *)

Str(text) == [null |-> FALSE, text |-> text, layers |-> <<>>]
Null == [null |-> TRUE, text |-> "", layers |-> <<>>]

\* Fernet(ENCRYPTION_KEY).encrypt(m), made with IV iv.
encrypt(m, iv) == [m EXCEPT !.layers = Append(@, iv)]
\* Fernet(ENCRYPTION_KEY).decrypt(m) succeeds on a token of this key only.
IsToken(m) == Len(m.layers) > 0
decrypt(m) == [m EXCEPT !.layers = SubSeq(@, 1, Len(@) - 1)]

\* The IVs encrypt draws from, the rows of the table, and how often the
\* upgrade is started and interrupted.
MaxIv == 1
MaxRuns == 2
MaxInterrupts == 1
Rows == {"$r1", "$r2", "$r3"}
\* What a message column holds before the upgrade: NULL, the empty string, a
\* plain text, or a text the new code already stored encrypted.
StoredBefore == {Null, Str(""), Str("buy more pumpkins"), encrypt(Str("befriend rats"), 0)}

\* SELECT event_id, message FROM reminder WHERE message IS NOT NULL AND message != ''
Selected(msg) == {r \in Rows : ~msg[r].null /\ msg[r] # Str("")}

\* try: fernet.decrypt(...) except: ...  -- the row is skipped when the
\* decryption succeeds.
SkipNever(m) == FALSE
Skip(m) == IsToken(m)

\* The orders in which the fetched rows can come.
RECURSIVE Orders(_)
Orders(S) ==
    IF S = {} THEN {<<>>}
    ELSE UNION {{<<r>> \o q : q \in Orders(S \ {r})} : r \in S}

Idle == [pc |-> "idle", rows |-> <<>>, i |-> 0, runs |-> 0, interrupts |-> 0,
         completed |-> 0]

UpgradeInit ==
    /\ reminder_message \in [Rows -> StoredBefore]
    /\ original = reminder_message
    /\ upgrade = Idle

\* upgrade_v2 starts: the rows are fetched, with the messages they hold now.
StartUpgrade(order) ==
    /\ upgrade.pc # "running"
    /\ upgrade.runs < MaxRuns
    /\ upgrade' = [upgrade EXCEPT !.pc = "running",
                                  !.rows = [k \in 1..Len(order) |->
                                              [event_id |-> order[k], message |-> reminder_message[order[k]]]],
                                  !.i = 1, !.runs = @ + 1]
    /\ UNCHANGED <<reminder_message, original>>
    /\ UNCHANGED <<rateVars, parseVars, storeVars>>

\* One turn of the for loop: the row is skipped, or encrypted and updated.
UpgradeRow(iv) ==
    /\ upgrade.pc = "running"
    /\ upgrade.i <= Len(upgrade.rows)
    /\ LET row == upgrade.rows[upgrade.i]
       IN  reminder_message' = IF Skip(row.message) THEN reminder_message
                      ELSE [reminder_message EXCEPT ![row.event_id] = encrypt(row.message, iv)]
    /\ upgrade' = [upgrade EXCEPT !.i = @ + 1]
    /\ UNCHANGED original
    /\ UNCHANGED <<rateVars, parseVars, storeVars>>

\* The loop is over: upgrade_v2 returns.
FinishUpgrade ==
    /\ upgrade.pc = "running"
    /\ upgrade.i > Len(upgrade.rows)
    /\ upgrade' = [upgrade EXCEPT !.pc = "done", !.completed = @ + 1]
    /\ UNCHANGED <<reminder_message, original>>
    /\ UNCHANGED <<rateVars, parseVars, storeVars>>

\* The process stops part-way through the rows; the updates made stay.
Interrupt ==
    /\ upgrade.pc = "running"
    /\ upgrade.i <= Len(upgrade.rows)
    /\ upgrade.interrupts < MaxInterrupts
    /\ upgrade' = [upgrade EXCEPT !.pc = "idle", !.interrupts = @ + 1]
    /\ UNCHANGED <<reminder_message, original>>
    /\ UNCHANGED <<rateVars, parseVars, storeVars>>

UpgradeNext ==
    \/ \E order \in Orders(Selected(reminder_message)) : StartUpgrade(order)
    \/ \E iv \in 0..MaxIv : UpgradeRow(iv)
    \/ FinishUpgrade
    \/ Interrupt

----------------------------------------------------------------------------
(* Specifications                                                          *)

RateIdle ==
    /\ now = 0
    /\ max_calls = DefaultMaxCalls
    /\ users = [u \in Users |-> NoUser]
    /\ deques = [d \in DequeIds |-> <<>>]
    /\ solo = [u \in Users |-> <<>>]
    /\ last = NoCall
ParseIdle ==
    /\ clock = [sec |-> BaseSec, usec |-> 0]
    /\ user_info = [timezone |-> "UTC"]
    /\ shown = NoShown
    /\ outcome = NoOutcome
StoreIdle == StoreInit
UpgradeIdle ==
    /\ reminder_message = [r \in Rows |-> Null]
    /\ original = reminder_message
    /\ upgrade = Idle

InitRate == RateInit /\ ParseIdle /\ StoreIdle /\ UpgradeIdle
SpecRate == InitRate /\ [][RateNext]_vars
InitParse == ParseInit /\ RateIdle /\ StoreIdle /\ UpgradeIdle
SpecParse == InitParse /\ [][ParseNext]_vars
InitStore == StoreInit /\ RateIdle /\ ParseIdle /\ UpgradeIdle
SpecStore == InitStore /\ [][StoreNext]_vars
InitUpgrade == UpgradeInit /\ RateIdle /\ ParseIdle /\ StoreIdle
SpecUpgrade == InitUpgrade /\ [][UpgradeNext]_vars

----------------------------------------------------------------------------
(* Claims about the rate limiter, checked under SpecRate                   *)

Called == last.user # None
WithinWindow(q, t) == \A i \in 1..Len(q) : q[i] + time_window >= t
Sorted(q) == \A i, j \in 1..Len(q) : i < j => q[i] <= q[j]

\* C1: with max_calls = 5 and time_window = 60, a call that finds k < 5
\* timestamps, all within the last 60 minutes, appends now and returns k + 1
\* (so five calls from an empty window return 1, 2, 3, 4, 5); a call that
\* finds 5 such timestamps returns 5 and leaves the queue unchanged; a call
\* made 61 minutes or more after the last recorded one evicts everything,
\* records now and returns 1.
C1_SlidingWindow ==
    (Called /\ max_calls = 5) =>
        /\ (WithinWindow(last.pre, last.at) /\ Len(last.pre) < 5) =>
               (last.ret = Len(last.pre) + 1 /\ last.post = Append(last.pre, last.at))
        /\ (WithinWindow(last.pre, last.at) /\ Len(last.pre) = 5) =>
               (last.ret = 5 /\ last.post = last.pre)
        /\ (Len(last.pre) > 0 /\ last.at >= last.pre[Len(last.pre)] + 61) =>
               (last.ret = 1 /\ last.post = <<last.at>>)
\* The sixth call came and was turned away, and 61 minutes later a call
\* evicted all five timestamps and returned 1.
C1_Witness ==
    /\ Called /\ max_calls = 5
    /\ Len(last.pre) = 5
    /\ last.at = last.pre[5] + 61
    /\ last.ret = 1
    /\ last.post = <<last.at>>
\* A full window of five was found and the call was not recorded.
C1_WitnessFull ==
    /\ Called /\ max_calls = 5
    /\ Len(last.pre) = 5 /\ WithinWindow(last.pre, last.at)
    /\ last.ret = 5 /\ last.post = last.pre

\* C2: two users whose UserInfo objects were built without an explicit
\* last_reminders each see the window, and get the counts, that their own
\* calls alone produce.
C2_PerUserWindows ==
    \A a, b \in Users :
        (a # b /\ users[a] # NoUser /\ users[b] # NoUser
              /\ ~users[a].explicit /\ ~users[b].explicit) =>
            /\ deques[users[b].last_reminders] = solo[b]
            /\ (last.user = b => last.ret = last.soloRet)

\* C7: for max_calls >= 1, a call that recorded now and a call that did not
\* never return the same count (here: two calls made one after the other).
C7_CountTellsRecorded ==
    [][(max_calls >= 1 /\ last.user # None /\ last'.user # None /\ last' # last)
         => ~(last.ret = last'.ret /\ last.recorded # last'.recorded)]_vars

\* C9: at the return of every call the queue is ordered oldest first, holds at
\* most max_calls timestamps, holds no timestamp older than now - time_window,
\* still holds every timestamp that was exactly time_window old, and the
\* value returned is the queue's length.
C9_WindowInvariant ==
    Called =>
        /\ Sorted(last.post)
        /\ Len(last.post) <= max_calls
        /\ \A i \in 1..Len(last.post) : last.post[i] >= last.at - time_window
        /\ \A i \in 1..Len(last.pre) :
               last.pre[i] = last.at - time_window =>
                   \E j \in 1..Len(last.post) : last.post[j] = last.pre[i]
        /\ last.ret = Len(last.post)
        /\ deques[users[last.user].last_reminders] = last.post
\* A call found a timestamp exactly time_window old next to an older one,
\* evicted the older one and kept the other.
C9_Witness ==
    /\ Called
    /\ Len(last.pre) >= 2
    /\ last.pre[1] < last.at - time_window
    /\ last.pre[2] = last.at - time_window
    /\ last.post[1] = last.pre[2]
    /\ last.ret = Len(last.post)

----------------------------------------------------------------------------
(* Claims about parse_date and format_time, checked under SpecParse        *)

Result == outcome.result
Returned == Result.status = "ok"
\* The lengths of the prefixes of the normalized input that are date
\* expressions, among all and among the first PrefixTokens tokens.
Normalized == NormalizeWeek(outcome.input)
DatePrefixes ==
    {i \in 1..Len(Normalized) : DateParse(SubSeq(Normalized, 1, i), outcome.read1) # NoDate}
Candidates == {i \in DatePrefixes : i <= PrefixTokens}
Longest(S) == CHOOSE i \in S : \A j \in S : j <= i
Example == <<Num(8), Unit("hour", TRUE), Word(1), Word(2), Word(3)>>

\* C3: parse_date never returns an instant at or before the clock's reading.
C3_NeverAtOrBeforeNow ==
    Returned => Before(outcome.read2, Result.date)

\* C4: for a future whole-second instant t and a fixed clock, parse_date of
\* the text format_time(t) gives returns exactly t.
RoundTripCase ==
    /\ outcome.of # NoShown
    /\ outcome.of.time > outcome.of.at.sec
    /\ outcome.read1 = outcome.of.at
    /\ outcome.read2 = outcome.of.at
RoundTripExact ==
    /\ Returned
    /\ Result.date = [sec |-> outcome.of.time, usec |-> 0]
NonZeroParts(delta) ==
    Cardinality({p \in {<<"d", delta \div 86400>>, <<"h", (delta % 86400) \div 3600>>,
                        <<"m", (delta % 3600) \div 60>>, <<"s", delta % 60>>} : p[2] # 0})
Lossless(t, nowsec) ==
    IF t - nowsec <= 7 * 86400 THEN NonZeroParts(t - nowsec) <= 2 ELSE t % 60 = 0
C6_LongestPrefixFirst ==
    /\ Candidates # {} =>
          /\ Result.via = "prefix"
          /\ Result.date_str = SubSeq(Normalized, 1, Longest(Candidates))
          /\ Result.date = ReplaceMicrosecond0(
                 DateParse(SubSeq(Normalized, 1, Longest(Candidates)), outcome.read1))
    /\ Result.via = "prefix" => Len(Result.date_str) <= PrefixTokens
    /\ outcome.input = Example =>
          /\ Returned
          /\ Result.date_str = <<Num(8), Unit("hour", TRUE)>>
          /\ Result.date.sec = outcome.read1.sec + 8 * 3600
\* Prefixes of 3, 4, 6, 8 and 10 tokens are dates; the one of 8 was used.
C6_Witness ==
    /\ Returned
    /\ Result.via = "prefix"
    /\ Len(Normalized) = 10
    /\ {3, 6, 8, 10} \subseteq DatePrefixes
    /\ Len(Result.date_str) = 8

\* C8: the search over the whole text is used only when no prefix candidate
\* parsed, and then its first match gives the consumed text and the date; when
\* neither finds a date, parse_date raises a CommandSyntaxError whose message
\* holds the PARSE_DATE_EXAMPLES text, and returns nothing.
Called8 == outcome # NoOutcome
FirstMatch == search_dates(Normalized, outcome.read1)
C8_FallbackAndFailure ==
    Called8 =>
        /\ Result.via = "search" => Candidates = {}
        /\ (Candidates = {} /\ FirstMatch # NoMatch) =>
              /\ Result.via = "search"
              /\ Result.date_str = FirstMatch.date_str
              /\ Result.date = ReplaceMicrosecond0(FirstMatch.date)
        /\ (Candidates = {} /\ FirstMatch = NoMatch) =>
              /\ Result.status = "syntax_error"
              /\ Result.date = NoDate /\ Result.date_str = <<>>
              /\ \E i \in 1..Len(Result.error.message) :
                     Result.error.message[i] = PARSE_DATE_EXAMPLES[1]
\* No prefix and no part of the text was a date: the error was raised.
C8_Witness ==
    /\ Called8
    /\ Candidates = {} /\ FirstMatch = NoMatch
    /\ Len(outcome.input) > 0
    /\ Result.status = "syntax_error"
\* The date came after other words and the search found it.
C8_WitnessSearch ==
    /\ Returned
    /\ Result.via = "search"
    /\ Result.date_str # SubSeq(Normalized, 1, Len(Result.date_str))

----------------------------------------------------------------------------
(* Claim about the tables, checked under SpecStore                         *)

\* C5: every row of reminder_target refers to an event_id that exists in
\* reminder, after any interleaving of create, add_subscription,
\* remove_subscription and delete; a delete leaves no subscription to the
\* deleted reminder, and an insert that comes after the delete of its parent
\* adds nothing.
C5_NoOrphans ==
    /\ \A row \in reminder_target : row.event_id \in reminder
    /\ statement.op = "delete" =>
          \A row \in reminder_target : row.event_id # statement.event_id
    /\ (statement.op = "add_subscription" /\ statement.event_id \notin reminder) =>
          TargetRow(statement.event_id, statement.user_id) \notin reminder_target
\* A subscription was begun, its reminder was deleted with the subscriptions
\* it had, and the insert that followed was refused.
C5_Witness ==
    /\ statement.op = "add_subscription"
    /\ statement.result = "foreign_key_violation"
    /\ statement.event_id \notin reminder
\* A delete took two subscriptions with it.
C5_WitnessCascade ==
    /\ statement.op = "delete"
    /\ statement.cascaded = 2

----------------------------------------------------------------------------
(* Claim about upgrade_v2, checked under SpecUpgrade                       *)

\* The plain text a stored message stands for.
RECURSIVE Plain(_)
Plain(m) == IF IsToken(m) THEN Plain(decrypt(m)) ELSE m
NonEmpty(m) == ~m.null /\ m # Str("")

\* C10: no message is ever encrypted twice, whether upgrade_v2 runs once,
\* again, or again after it was interrupted; rows with a NULL or empty message
\* are never changed; and when upgrade_v2 has completed, every other row holds
\* a token that decrypts, in one step, to the original plain text.
C10_EncryptsOnce ==
    /\ \A r \in Rows : Len(reminder_message[r].layers) <= 1
    /\ \A r \in Rows : ~NonEmpty(original[r]) => reminder_message[r] = original[r]
    /\ \A r \in Rows : Plain(reminder_message[r]) = Plain(original[r])
    /\ upgrade.completed > 0 =>
          \A r \in Rows : NonEmpty(original[r]) =>
              /\ IsToken(reminder_message[r])
              /\ decrypt(reminder_message[r]) = Plain(original[r])
              /\ ~IsToken(decrypt(reminder_message[r]))
\* upgrade_v2 was interrupted after it had encrypted a row, was run again to
\* the end, and a plain message is now one token.
C10_Witness ==
    /\ upgrade.pc = "done"
    /\ upgrade.interrupts = 1
    /\ upgrade.runs = 2
    /\ \E r \in Rows : ~IsToken(original[r]) /\ NonEmpty(original[r]) /\ IsToken(reminder_message[r])
    /\ \E r \in Rows : IsToken(original[r])
\* upgrade_v2 ran to the end twice.
C10_WitnessTwice ==
    /\ upgrade.completed = 2
    /\ \E r \in Rows : ~IsToken(original[r]) /\ NonEmpty(original[r]) /\ IsToken(reminder_message[r])

====
